---- MODULE Spec2Model ----
(***************************************************************************)
(* The whiteboard context bar of tldraw-logseq                             *)
(* (components/ContextBar/contextBarActionFactory.tsx): the action         *)
(* resolver getContextBarActionsForTypes over the static tables, and the   *)
(* action widgets with their change handlers.                              *)
(***************************************************************************)
EXTENDS Integers, Sequences, FiniteSets, TLC

VARIABLES
  contextBarActionTypes,  \* the master enumeration (module constant array)
  singleShapeActions,     \* the single-shape-only actions (module array)
  shapeMapping,           \* shape type -> action list (module object)
  shapes,                 \* the canvas: shape id -> [type, props...]
  selectedShapesArray,    \* app.selectedShapesArray: sequence of shape ids
  actions,                \* the widgets the context bar has mounted, in order
  memo,                   \* what the memoised handlers closed over at first render
  timeoutId,              \* the debounce timer of the Swatch handler
  latestValue,            \* the closure variable of the Swatch handler
  lastEvent,              \* history: the value of the latest colour event
  orphans,                \* timers still pending for unmounted Swatch widgets
  display                 \* the value each mounted widget shows

vars == <<contextBarActionTypes, singleShapeActions, shapeMapping, shapes,
          selectedShapesArray, actions, memo, timeoutId, latestValue, lastEvent,
          orphans, display>>

tables == <<contextBarActionTypes, singleShapeActions, shapeMapping>>

-----------------------------------------------------------------------------
(* Bounds *)

\* The longest selection the model makes.
MaxSel == 3

\* The most debounce timers pending at once: the mounted Swatch widget's and
\* those that unmounted Swatch widgets left behind.  The program sets no
\* limit: it takes a colour event however many timers are pending.  The
\* model takes the event only while fewer than MaxPending timers of
\* unmounted widgets are pending, and otherwise lets a timer run out first.
MaxPending == 2

-----------------------------------------------------------------------------
(* The static tables, as the module initialises them *)

ContextBarActionTypesInit ==
  << "Edit", "AutoResizing", "Swatch", "NoFill", "StrokeType", "ScaleLevel",
     "TextStyle", "YoutubeLink", "LogseqPortalViewMode", "ArrowMode", "OpenPage" >>

SingleShapeActionsInit == << "Edit", "YoutubeLink", "OpenPage" >>

ShapeMappingInit ==
  ("logseq-portal" :> << "Edit", "LogseqPortalViewMode", "ScaleLevel", "OpenPage",
                         "AutoResizing" >>) @@
  ("youtube"       :> << "YoutubeLink" >>) @@
  ("box"           :> << "Swatch", "NoFill", "StrokeType" >>) @@
  ("ellipse"       :> << "Swatch", "NoFill", "StrokeType" >>) @@
  ("polygon"       :> << "Swatch", "NoFill", "StrokeType" >>) @@
  ("line"          :> << "Edit", "Swatch", "ArrowMode" >>) @@
  ("pencil"        :> << "Swatch" >>) @@
  ("highlighter"   :> << "Swatch" >>) @@
  ("text"          :> << "Edit", "Swatch", "ScaleLevel", "AutoResizing", "TextStyle" >>) @@
  ("html"          :> << "ScaleLevel", "AutoResizing" >>)

\* contextBarActionMapping: action -> widget component.
contextBarActionMapping ==
  [ Edit                 |-> "EditAction",
    AutoResizing         |-> "AutoResizingAction",
    LogseqPortalViewMode |-> "LogseqPortalViewModeAction",
    ScaleLevel           |-> "ScaleLevelAction",
    OpenPage             |-> "OpenPageAction",
    YoutubeLink          |-> "YoutubeLinkAction",
    NoFill               |-> "NoFillAction",
    Swatch               |-> "SwatchAction",
    StrokeType           |-> "StrokeTypeAction",
    ArrowMode            |-> "ArrowModeAction",
    TextStyle            |-> "TextStyleAction" ]

\* Shape types: the ten the table knows and one it has no entry for.
MappedTypes == DOMAIN ShapeMappingInit
UnmappedTypes == { "image" }
ShapeTypes == MappedTypes \cup UnmappedTypes

-----------------------------------------------------------------------------
(* Array helpers, as the JavaScript methods compute them *)

includes(arr, x) == \E i \in 1..Len(arr) : arr[i] = x

\* Array.prototype.indexOf: the first index (0-based), or -1.
indexOf(arr, x) ==
  IF includes(arr, x)
  THEN (CHOOSE i \in 1..Len(arr) : arr[i] = x /\ \A j \in 1..(i-1) : arr[j] # x) - 1
  ELSE -1

Range(arr) == { arr[i] : i \in 1..Len(arr) }

\* new Set(array): insertion order, later duplicates dropped.
RECURSIVE newSet(_)
newSet(arr) ==
  IF arr = << >> THEN << >>
  ELSE LET front == newSet(SubSeq(arr, 1, Len(arr) - 1))
           last  == arr[Len(arr)]
       IN IF includes(front, last) THEN front ELSE Append(front, last)

\* Array.prototype.sort with the comparator of line 483 (stable insertion).
RECURSIVE insertByIndex(_, _)
insertByIndex(sorted, a) ==
  IF sorted = << >> THEN << a >>
  ELSE IF indexOf(contextBarActionTypes, a)
            - indexOf(contextBarActionTypes, sorted[Len(sorted)]) >= 0
       THEN Append(sorted, a)
       ELSE Append(insertByIndex(SubSeq(sorted, 1, Len(sorted) - 1), a),
                   sorted[Len(sorted)])

RECURSIVE sortByEnumeration(_)
sortByEnumeration(arr) ==
  IF arr = << >> THEN << >>
  ELSE insertByIndex(sortByEnumeration(SubSeq(arr, 1, Len(arr) - 1)), arr[Len(arr)])

-----------------------------------------------------------------------------
(* The resolver *)

\* Mutant: a type without an entry falls back to every action.
getContextBarActionTypesDefaultAll(type) ==
  IF type \in DOMAIN shapeMapping THEN shapeMapping[type] ELSE contextBarActionTypes

\* (shapeMapping[type] ?? []).filter(isNonNullable)
getContextBarActionTypes(type) ==
  IF type \in DOMAIN shapeMapping THEN shapeMapping[type] ELSE << >>

\* Mutant: the loop stops one shape early.
RECURSIVE intersectTypesShort(_, _, _)
intersectTypesShort(actionTypes, types, i) ==
  IF i < Len(types) - 1 /\ Len(actionTypes) > 0
  THEN LET otherActionTypes == getContextBarActionTypes(types[i + 1])
       IN intersectTypesShort(SelectSeq(actionTypes, LAMBDA a : includes(otherActionTypes, a)),
                              types, i + 1)
  ELSE actionTypes

\* The for loop of lines 466-473; i is the loop index of the source (0-based).
RECURSIVE intersectTypes(_, _, _)
intersectTypes(actionTypes, types, i) ==
  IF i < Len(types) /\ Len(actionTypes) > 0
  THEN LET otherActionTypes == getContextBarActionTypes(types[i + 1])
       IN intersectTypes(SelectSeq(actionTypes, LAMBDA a : includes(otherActionTypes, a)),
                         types, i + 1)
  ELSE actionTypes

\* Mutant: the single-shape-only actions go whatever the selection size.
dropSingleShapeActionsAlways(actionTypes, n) ==
  SelectSeq(actionTypes, LAMBDA a : ~includes(singleShapeActions, a))

\* Mutant: the single-shape-only actions are never removed.
dropSingleShapeActionsNever(actionTypes, n) == actionTypes

\* Lines 474-480.
dropSingleShapeActions(actionTypes, n) ==
  IF n > 1
  THEN SelectSeq(actionTypes, LAMBDA a : ~includes(singleShapeActions, a))
  ELSE actionTypes

\* Mutant: the sort of line 483 is left out.
widgetsUnsorted(actionTypes) ==
  [ i \in 1..Len(actionTypes) |-> contextBarActionMapping[actionTypes[i]] ]

\* Lines 482-484: Array.from(actionTypes).sort(...).map(...)
widgetsInOrder(actionTypes) ==
  LET sorted == sortByEnumeration(actionTypes)
  IN [ i \in 1..Len(sorted) |-> contextBarActionMapping[sorted[i]] ]

\* Lines 464-480: the set of action types left for the selection.
resolveActionTypes(shs) ==
  LET types == [ i \in 1..Len(shs) |-> shs[i].type ]
      first == newSet(IF Len(shs) > 0 THEN getContextBarActionTypes(types[1]) ELSE << >>)
  IN dropSingleShapeActions(intersectTypes(first, types, 1), Len(shs))

getContextBarActionsForTypes(shs) == widgetsInOrder(resolveActionTypes(shs))

\* filterShapeByAction: the shapes whose type lists the action.
filterShapeByAction(shs, type) ==
  SelectSeq(shs, LAMBDA s : s.type \in DOMAIN shapeMapping
                            /\ includes(shapeMapping[s.type], type))

\* The objects a resolver call creates, beside the table entries (which are
\* named by their shape type).
Temporaries == { "filter()", "new Set()", "Array.from()" }

\* Mutant: a copying call hands back the object it was given.
copyRefAlias(source, fresh) == source

\* The object a copying call returns: filter (line 460), new Set (line 465)
\* and Array.from (line 483) each build a new object from their argument.
copyRef(source, fresh) == fresh

\* The heap a resolver call starts with: the table entries, and room for the
\* objects it creates.
heapBeforeResolve ==
  [ r \in DOMAIN shapeMapping \cup Temporaries |->
      IF r \in DOMAIN shapeMapping THEN shapeMapping[r] ELSE << >> ]

\* The table after a resolver call.  The call writes twice: the deletes of
\* lines 470 and 477 change the object actionTypes refers to, and the sort of
\* line 483 reorders, in place, the object Array.from returned.  A selection
\* that is empty or starts with a type without an entry reaches no table
\* entry (shapeMapping[type] ?? [] is a new array).
shapeMappingAfterResolve(shs) ==
  IF Len(shs) = 0 \/ shs[1].type \notin DOMAIN shapeMapping THEN shapeMapping
  ELSE LET filtered    == copyRef(shs[1].type, "filter()")
           actionTypes == copyRef(filtered, "new Set()")
           array       == copyRef(actionTypes, "Array.from()")
           deleted     == [ heapBeforeResolve EXCEPT ![actionTypes] = resolveActionTypes(shs) ]
           sorted      == [ deleted EXCEPT ![array] = sortByEnumeration(deleted[actionTypes]) ]
       IN [ t \in DOMAIN shapeMapping |-> sorted[t] ]

-----------------------------------------------------------------------------
(* Shapes *)

Colors == { "red", "blue" }
ScaleLevels == { "md", "lg" }
Urls == { "u1", "u2" }
ArrowValues == SUBSET { "start", "end" }

\* A new shape of the given type, with the properties the widgets read.
newShape(id, type) ==
  [ id |-> id, type |-> type, fill |-> "red", stroke |-> "black", noFill |-> FALSE,
    strokeType |-> "line", decorations |-> [ start |-> "null", end |-> "arrow" ],
    isAutoResizing |-> TRUE, collapsed |-> FALSE, scaleLevel |-> "md",
    fontWeight |-> 400, italic |-> FALSE, url |-> "u1" ]

\* The shape objects of a sequence of ids.
shapesOf(shps, ids) == [ i \in 1..Len(ids) |-> shps[ids[i]] ]

idsOf(shs) == [ i \in 1..Len(shs) |-> shs[i].id ]

every(shs, P(_)) == \A i \in 1..Len(shs) : P(shs[i])

\* One external call: shape.update / a shape method / app.persist.
call(name, id, prop, value) ==
  [ call |-> name, id |-> id, prop |-> prop, value |-> value ]

persist(ephemeral) == call("persist", 0, "", ephemeral)

\* What a call does to the canvas.
applyCall(shps, c) ==
  CASE c.call = "update"              -> [ shps EXCEPT ![c.id] = [ @ EXCEPT ![c.prop] = c.value ] ]
    [] c.call = "setCollapsed"        -> [ shps EXCEPT ![c.id].collapsed = c.value ]
    [] c.call = "setScaleLevel"       -> [ shps EXCEPT ![c.id].scaleLevel = c.value ]
    [] c.call = "onYoutubeLinkChange" -> [ shps EXCEPT ![c.id].url = c.value ]
    [] OTHER                          -> shps

RECURSIVE applyCalls(_, _)
applyCalls(shps, calls) ==
  IF calls = << >> THEN shps
  ELSE applyCalls(applyCall(shps, Head(calls)), Tail(calls))

RECURSIVE concatAll(_)
concatAll(seqs) ==
  IF seqs = << >> THEN << >> ELSE Head(seqs) \o concatAll(Tail(seqs))

\* shapes.forEach(f): the calls f makes for each shape, in order.
forEach(shs, f(_)) == concatAll([ i \in 1..Len(shs) |-> f(shs[i]) ])

-----------------------------------------------------------------------------
(* The change handlers: the external calls each makes, in order *)

\* AutoResizingAction, onPressedChange.
AutoResizingOnPressedChange(shs, v) ==
  forEach(shs, LAMBDA s : IF s.type = "logseq-portal"
                          THEN << call("update", s.id, "isAutoResizing", v) >>
                          ELSE << call("onResetBounds", s.id, "", "zoom") >>)
  \o << persist(FALSE) >>

\* Mutant: the flush is requested before the shapes are updated.
ViewModePersistFirst(shs, v) ==
  << persist(FALSE) >>
  \o forEach(shs, LAMBDA s : << call("setCollapsed", s.id, "", IF v = "1" THEN TRUE ELSE FALSE) >>)

\* LogseqPortalViewModeAction, onValueChange.
ViewModeOnValueChange(shs, v) ==
  forEach(shs, LAMBDA s : << call("setCollapsed", s.id, "", IF v = "1" THEN TRUE ELSE FALSE) >>)
  \o << persist(FALSE) >>

\* ScaleLevelAction, onValueChange.
ScaleLevelOnValueChange(shs, v) ==
  forEach(shs, LAMBDA s : << call("setScaleLevel", s.id, "", v) >>)
  \o << persist(FALSE) >>

\* YoutubeLinkAction, handleChange; shs holds the one captured shape.
YoutubeLinkHandleChange(shs, v) ==
  << call("onYoutubeLinkChange", shs[1].id, "", v), persist(FALSE) >>

\* NoFillAction, handleChange.
NoFillHandleChange(shs, v) ==
  forEach(shs, LAMBDA s : << call("update", s.id, "noFill", v) >>)
  \o << persist(FALSE) >>

\* SwatchAction, the debounced handler; latest is the closure's latestValue.
SwatchHandler(shs, latest) ==
  forEach(shs, LAMBDA s : << call("update", s.id, "fill", latest) >>)
  \o << persist(TRUE) >>

\* SwatchAction, the immediate function given to debounce.
SwatchImmediate(latest, v) == v

\* StrokeTypeAction, onValueChange.
StrokeTypeOnValueChange(shs, v) ==
  forEach(shs, LAMBDA s : << call("update", s.id, "strokeType", v) >>)
  \o << persist(FALSE) >>

\* ArrowModeAction, valueToDecorations.
valueToDecorations(value) ==
  [ start |-> IF "start" \in value THEN "arrow" ELSE "null",
    end   |-> IF "end" \in value THEN "arrow" ELSE "null" ]

\* ArrowModeAction, onValueChange.
ArrowModeOnValueChange(shs, v) ==
  forEach(shs, LAMBDA s : << call("update", s.id, "decorations", valueToDecorations(v)) >>)
  \o << persist(FALSE) >>

\* TextStyleAction, onPressedChange of the Bold toggle.
BoldOnPressedChange(shs, v) ==
  forEach(shs, LAMBDA s : << call("update", s.id, "fontWeight", IF v THEN 700 ELSE 400),
                             call("onResetBounds", s.id, "", "") >>)
  \o << persist(FALSE) >>

\* TextStyleAction, onPressedChange of the Italic toggle.
ItalicOnPressedChange(shs, v) ==
  forEach(shs, LAMBDA s : << call("update", s.id, "italic", v),
                             call("onResetBounds", s.id, "", "") >>)
  \o << persist(FALSE) >>

-----------------------------------------------------------------------------
(* The value each widget shows for its matching shapes *)

AutoResizingPressed(shs) == every(shs, LAMBDA s : s.isAutoResizing)

ViewModeValue(shs) == IF every(shs, LAMBDA s : s.collapsed) THEN "1" ELSE "0"

ScaleLevelValue(shs) ==
  IF shs = << >> THEN "TypeError"
  ELSE IF Cardinality({ shs[i].scaleLevel : i \in 1..Len(shs) }) > 1
       THEN "" ELSE shs[1].scaleLevel

YoutubeLinkValue(shs) == IF shs = << >> THEN "TypeError" ELSE shs[1].url

NoFillPressed(shs) == every(shs, LAMBDA s : s.noFill)

SwatchValue(shs) ==
  IF shs = << >> THEN "TypeError"
  ELSE IF shs[1].noFill THEN shs[1].stroke ELSE shs[1].fill

\* Mutant: the stroke type of the first shape is shown.
StrokeTypeValueFirst(shs) == shs[1].strokeType

\* StrokeTypeAction, value.
StrokeTypeValue(shs) ==
  IF every(shs, LAMBDA s : s.strokeType = "dashed") THEN "dashed"
  ELSE IF every(shs, LAMBDA s : s.strokeType = "line") THEN "line"
  ELSE "mixed"

ArrowModeValue(shs) ==
  LET startValue == every(shs, LAMBDA s : s.decorations.start = "arrow")
      endValue   == every(shs, LAMBDA s : s.decorations.end = "arrow")
  IN (IF startValue THEN { "start" } ELSE { }) \cup (IF endValue THEN { "end" } ELSE { })

TextStyleValue(shs) ==
  [ bold   |-> every(shs, LAMBDA s : s.fontWeight > 500),
    italic |-> every(shs, LAMBDA s : s.italic) ]

\* EditAction, shape: the first matching shape, or undefined; the render
\* never reads it (only a click does).
EditShape(shs) == IF shs = << >> THEN "undefined" ELSE shs[1].id

\* OpenPageAction, shape: the render destructures shape.props.
OpenPageShape(shs) == IF shs = << >> THEN "TypeError" ELSE shs[1].id

\* The render of one widget against the selection.
widgetValue(w, sel) ==
  CASE w = "EditAction"                 -> EditShape(filterShapeByAction(sel, "Edit"))
    [] w = "AutoResizingAction"         -> AutoResizingPressed(filterShapeByAction(sel, "AutoResizing"))
    [] w = "LogseqPortalViewModeAction" -> ViewModeValue(filterShapeByAction(sel, "LogseqPortalViewMode"))
    [] w = "ScaleLevelAction"           -> ScaleLevelValue(filterShapeByAction(sel, "ScaleLevel"))
    [] w = "OpenPageAction"             -> OpenPageShape(filterShapeByAction(sel, "OpenPage"))
    [] w = "YoutubeLinkAction"          -> YoutubeLinkValue(filterShapeByAction(sel, "YoutubeLink"))
    [] w = "NoFillAction"               -> NoFillPressed(filterShapeByAction(sel, "NoFill"))
    [] w = "SwatchAction"               -> SwatchValue(filterShapeByAction(sel, "Swatch"))
    [] w = "StrokeTypeAction"           -> StrokeTypeValue(filterShapeByAction(sel, "StrokeType"))
    [] w = "ArrowModeAction"            -> ArrowModeValue(filterShapeByAction(sel, "ArrowMode"))
    [] w = "TextStyleAction"            -> TextStyleValue(filterShapeByAction(sel, "TextStyle"))

\* Every mounted widget is an observer: it renders again after each change.
renderWidgets(shps, ids, acts) ==
  [ w \in Range(acts) |-> widgetValue(w, shapesOf(shps, ids)) ]

-----------------------------------------------------------------------------
(* Mounting: the context bar renders the resolver's result *)

\* The widgets whose handler is memoised with an empty dependency list.
MemoWidgets == { "YoutubeLinkAction", "NoFillAction", "SwatchAction" }

Unmounted == [ mounted |-> FALSE, shapes |-> << >> ]

\* What the handler built at a widget's first render closes over.
capture(w, sel) ==
  CASE w = "YoutubeLinkAction" ->
         LET ids == idsOf(filterShapeByAction(sel, "YoutubeLink"))
         IN SubSeq(ids, 1, IF Len(ids) > 0 THEN 1 ELSE 0)
    [] w = "NoFillAction" -> idsOf(filterShapeByAction(sel, "NoFill"))
    [] w = "SwatchAction" -> idsOf(filterShapeByAction(sel, "Swatch"))

\* The bar keys its children by index: a widget instance survives a render
\* when the same component stands at the same index before and after.
staysMounted(w, old, new) ==
  \E i \in 1..Len(new) : i <= Len(old) /\ old[i] = w /\ new[i] = w

\* The render of the context bar for the canvas shps and the selection ids.
Mount(shps, ids) ==
  LET sel  == shapesOf(shps, ids)
      acts == getContextBarActionsForTypes(sel)
  IN /\ selectedShapesArray' = ids
     /\ shapeMapping' = shapeMappingAfterResolve(sel)
     /\ UNCHANGED << contextBarActionTypes, singleShapeActions >>
     /\ actions' = acts
     /\ memo' = [ w \in MemoWidgets |->
                    IF staysMounted(w, actions, acts) THEN memo[w]
                    ELSE IF includes(acts, w)
                         THEN [ mounted |-> TRUE, shapes |-> capture(w, sel) ]
                         ELSE Unmounted ]
     /\ IF staysMounted("SwatchAction", actions, acts)
        THEN UNCHANGED << timeoutId, latestValue, lastEvent, orphans >>
        ELSE /\ timeoutId' = "none"
             /\ latestValue' = ""
             /\ lastEvent' = ""
             /\ orphans' = IF timeoutId = "pending"
                           THEN Append(orphans, [ shapes |-> memo["SwatchAction"].shapes,
                                                  value  |-> latestValue ])
                           ELSE orphans
     /\ display' = renderWidgets(shps, ids, acts)

\* A handler run: its calls reach the canvas and the observers render again.
Interact(calls) ==
  /\ UNCHANGED << tables, selectedShapesArray, actions, memo >>
  /\ shapes' = applyCalls(shapes, calls)
  /\ display' = renderWidgets(shapes', selectedShapesArray, actions)

\* The shapes a widget's latest render filtered out of the selection.
matching(action) ==
  filterShapeByAction(shapesOf(shapes, selectedShapesArray), action)

Mounted(w) == includes(actions, w)

-----------------------------------------------------------------------------
(* The canvases and selections of the widget specification *)

Canvases ==
  { << "box", "box" >>, << "text", "text" >>, << "line", "line" >>,
    << "image", "line" >>, << "line", "image" >>,
    << "text", "logseq-portal" >>, << "logseq-portal", "text" >>,
    << "logseq-portal", "logseq-portal" >>, << "html", "logseq-portal" >>,
    << "logseq-portal", "html" >>, << "youtube", "youtube" >> }

\* The members of a set of shape ids as a sequence, in increasing order.
RECURSIVE inOrder(_)
inOrder(S) ==
  IF S = { } THEN << >>
  ELSE LET top == CHOOSE x \in S : \A y \in S : y <= x
       IN Append(inOrder(S \ { top }), top)

\* The selections the user makes: up to MaxSel shapes of the canvas.  Shapes
\* of one type are interchangeable and Canvases holds both orders of two
\* types, so the selections in increasing order of id stand for all.
Selections == { inOrder(S) : S \in { T \in SUBSET DOMAIN shapes : Cardinality(T) <= MaxSel } }

-----------------------------------------------------------------------------
(* Actions *)

\* The user changes the selection and the bar renders.
SelectShapes(ids) ==
  /\ shapes' = shapes
  /\ Mount(shapes, ids)

\* The calls each handler makes in the current state.
AutoResizingCalls(v) == AutoResizingOnPressedChange(matching("AutoResizing"), v)
ViewModeCalls(v) == ViewModeOnValueChange(matching("LogseqPortalViewMode"), v)
ScaleLevelCalls(v) == ScaleLevelOnValueChange(matching("ScaleLevel"), v)
YoutubeLinkCalls(v) ==
  YoutubeLinkHandleChange(shapesOf(shapes, memo["YoutubeLinkAction"].shapes), v)
NoFillCalls(v) == NoFillHandleChange(shapesOf(shapes, memo["NoFillAction"].shapes), v)
SwatchEventCalls(v) == << >>
SwatchTimerCalls ==
  SwatchHandler(shapesOf(shapes, memo["SwatchAction"].shapes), latestValue)
OrphanTimerCalls ==
  SwatchHandler(shapesOf(shapes, Head(orphans).shapes), Head(orphans).value)
StrokeTypeCalls(v) == StrokeTypeOnValueChange(matching("StrokeType"), v)
ArrowModeCalls(v) == ArrowModeOnValueChange(matching("ArrowMode"), v)
BoldCalls(v) == BoldOnPressedChange(matching("TextStyle"), v)
ItalicCalls(v) == ItalicOnPressedChange(matching("TextStyle"), v)

AutoResizingChange(v) ==
  /\ Mounted("AutoResizingAction")
  /\ UNCHANGED << timeoutId, latestValue, lastEvent, orphans >>
  /\ Interact(AutoResizingCalls(v))

ViewModeChange(v) ==
  /\ Mounted("LogseqPortalViewModeAction")
  /\ UNCHANGED << timeoutId, latestValue, lastEvent, orphans >>
  /\ Interact(ViewModeCalls(v))

ScaleLevelChange(v) ==
  /\ Mounted("ScaleLevelAction")
  /\ UNCHANGED << timeoutId, latestValue, lastEvent, orphans >>
  /\ Interact(ScaleLevelCalls(v))

YoutubeLinkChange(v) ==
  /\ Mounted("YoutubeLinkAction")
  /\ UNCHANGED << timeoutId, latestValue, lastEvent, orphans >>
  /\ Interact(YoutubeLinkCalls(v))

NoFillChange(v) ==
  /\ Mounted("NoFillAction")
  /\ UNCHANGED << timeoutId, latestValue, lastEvent, orphans >>
  /\ Interact(NoFillCalls(v))

\* A change event of the colour input: the debounced function runs.
\* The second conjunct is the bound on pending timers, not a condition
\* of the code.
SwatchChange(v) ==
  /\ Mounted("SwatchAction")
  /\ Len(orphans) < MaxPending
  /\ timeoutId' = "pending"
  /\ latestValue' = SwatchImmediate(latestValue, v)
  /\ lastEvent' = v
  /\ Interact(SwatchEventCalls(v))
  /\ UNCHANGED orphans

\* The debounce timer of the mounted Swatch widget runs out.  Every timer
\* has the same delay, so timers run in the order they were set: those left
\* by unmounted widgets were set before the mounted widget's.
SwatchTimeout ==
  /\ timeoutId = "pending"
  /\ orphans = << >>
  /\ timeoutId' = "none"
  /\ Interact(SwatchTimerCalls)
  /\ UNCHANGED << latestValue, lastEvent, orphans >>

\* The oldest timer an unmounted Swatch widget left pending runs out.
OrphanTimeout ==
  /\ orphans # << >>
  /\ orphans' = Tail(orphans)
  /\ Interact(OrphanTimerCalls)
  /\ UNCHANGED << timeoutId, latestValue, lastEvent >>

StrokeTypeChange(v) ==
  /\ Mounted("StrokeTypeAction")
  /\ UNCHANGED << timeoutId, latestValue, lastEvent, orphans >>
  /\ Interact(StrokeTypeCalls(v))

ArrowModeChange(v) ==
  /\ Mounted("ArrowModeAction")
  /\ UNCHANGED << timeoutId, latestValue, lastEvent, orphans >>
  /\ Interact(ArrowModeCalls(v))

BoldChange(v) ==
  /\ Mounted("TextStyleAction")
  /\ UNCHANGED << timeoutId, latestValue, lastEvent, orphans >>
  /\ Interact(BoldCalls(v))

ItalicChange(v) ==
  /\ Mounted("TextStyleAction")
  /\ UNCHANGED << timeoutId, latestValue, lastEvent, orphans >>
  /\ Interact(ItalicCalls(v))

InitBar ==
  /\ contextBarActionTypes = ContextBarActionTypesInit
  /\ singleShapeActions = SingleShapeActionsInit
  /\ shapeMapping = ShapeMappingInit
  /\ selectedShapesArray = << >>
  /\ actions = << >>
  /\ memo = [ w \in MemoWidgets |-> Unmounted ]
  /\ timeoutId = "none"
  /\ latestValue = ""
  /\ lastEvent = ""
  /\ orphans = << >>
  /\ display = << >>

Init ==
  /\ InitBar
  /\ \E canvas \in Canvases :
       shapes = [ i \in 1..Len(canvas) |-> newShape(i, canvas[i]) ]

Next ==
  \/ \E ids \in Selections : SelectShapes(ids)
  \/ \E v \in BOOLEAN : AutoResizingChange(v)
  \/ \E v \in { "1", "0" } : ViewModeChange(v)
  \/ \E v \in ScaleLevels : ScaleLevelChange(v)
  \/ \E v \in Urls : YoutubeLinkChange(v)
  \/ \E v \in BOOLEAN : NoFillChange(v)
  \/ \E v \in Colors : SwatchChange(v)
  \/ SwatchTimeout
  \/ OrphanTimeout
  \/ \E v \in { "line", "dashed" } : StrokeTypeChange(v)
  \/ \E v \in ArrowValues : ArrowModeChange(v)
  \/ \E v \in BOOLEAN : BoldChange(v)
  \/ \E v \in BOOLEAN : ItalicChange(v)

Spec == Init /\ [][Next]_vars

-----------------------------------------------------------------------------
(* The resolver specification: selections over every shape type *)

\* A shape of type t is created and joins the selection.
AddShape(t) ==
  /\ Len(selectedShapesArray) < MaxSel
  /\ shapes' = Append(shapes, newShape(Len(shapes) + 1, t))
  /\ Mount(shapes', Append(selectedShapesArray, Len(shapes) + 1))

\* The shape selected last is deleted.
RemoveShape ==
  /\ Len(selectedShapesArray) > 0
  /\ shapes' = SubSeq(shapes, 1, Len(shapes) - 1)
  /\ Mount(shapes', SubSeq(selectedShapesArray, 1, Len(selectedShapesArray) - 1))

\* The bar renders again: the resolver is called with the same selection.
Rerender ==
  /\ shapes' = shapes
  /\ Mount(shapes, selectedShapesArray)

InitResolver ==
  /\ InitBar
  /\ shapes = << >>

NextResolver ==
  \/ \E t \in ShapeTypes : AddShape(t)
  \/ RemoveShape
  \/ Rerender

SpecResolver == InitResolver /\ [][NextResolver]_vars

-----------------------------------------------------------------------------
(* Claims about the resolver, checked under SpecResolver *)

selected == shapesOf(shapes, selectedShapesArray)

selectedTypes == [ i \in 1..Len(selectedShapesArray) |-> shapes[selectedShapesArray[i]].type ]

AllActions == Range(ContextBarActionTypesInit)

SingleShapeOnly == { "Edit", "YoutubeLink", "OpenPage" }

\* The action belongs to the table entry of the type of every selected shape.
CommonToAll(a) ==
  \A i \in 1..Len(selectedTypes) :
    /\ selectedTypes[i] \in DOMAIN ShapeMappingInit
    /\ a \in Range(ShapeMappingInit[selectedTypes[i]])

\* The position of a mounted widget's action in the master enumeration.
enumIndex(w) ==
  CHOOSE k \in 1..Len(ContextBarActionTypesInit) :
    contextBarActionMapping[ContextBarActionTypesInit[k]] = w

\* C1: for a non-empty selection the resolver returns the widget of action A
\* exactly when A is in the table entry of every selected shape's type and
\* the selection has one shape or A is not single-shape-only; [box, ellipse]
\* gives [Swatch, NoFill, StrokeType] and [box, line] gives [Swatch].
C1_CommonActions ==
  Len(selectedShapesArray) > 0 =>
    /\ Range(actions) \subseteq { contextBarActionMapping[a] : a \in AllActions }
    /\ \A a \in AllActions :
         includes(actions, contextBarActionMapping[a])
           <=> ( CommonToAll(a)
                 /\ (Len(selectedShapesArray) = 1 \/ a \notin SingleShapeOnly) )
    /\ (selectedTypes = << "box", "ellipse" >>
          => actions = << "SwatchAction", "NoFillAction", "StrokeTypeAction" >>)
    /\ (selectedTypes = << "box", "line" >> => actions = << "SwatchAction" >>)

C1_Witness ==
  /\ selectedTypes = << "box", "line" >>
  /\ actions = << "SwatchAction" >>

\* C2: for one selected shape whose type has the table entry L the resolver
\* returns the widgets of exactly the actions of L, in the order of the
\* master enumeration.
C2_SingleShape ==
  (Len(selectedShapesArray) = 1 /\ selectedTypes[1] \in DOMAIN ShapeMappingInit) =>
    LET L == ShapeMappingInit[selectedTypes[1]]
    IN /\ Len(actions) = Len(L)
       /\ Range(actions) = { contextBarActionMapping[a] : a \in Range(L) }
       /\ \A i, j \in 1..Len(actions) : i < j => enumIndex(actions[i]) < enumIndex(actions[j])
       /\ (selectedTypes[1] = "logseq-portal"
             => actions = << "EditAction", "AutoResizingAction", "ScaleLevelAction",
                             "LogseqPortalViewModeAction", "OpenPageAction" >>)

C2_Witness ==
  /\ selectedTypes = << "logseq-portal" >>
  /\ actions = << "EditAction", "AutoResizingAction", "ScaleLevelAction",
                  "LogseqPortalViewModeAction", "OpenPageAction" >>

\* C3: the returned list is a duplicate-free subsequence of the master
\* enumeration, and every permutation of the selection gives the same list.
C3_EnumerationOrder ==
  /\ \A i, j \in 1..Len(actions) : i < j => enumIndex(actions[i]) < enumIndex(actions[j])
  /\ \A p \in Permutations(1..Len(selectedShapesArray)) :
       getContextBarActionsForTypes([ i \in 1..Len(selectedShapesArray) |-> selected[p[i]] ])
         = actions

C3_Witness ==
  /\ selectedTypes = << "html", "text", "logseq-portal" >>
  /\ actions = << "AutoResizingAction", "ScaleLevelAction" >>

\* C4: the empty selection, and every selection holding a shape whose type has
\* no table entry (first or later), gives the empty list.
C4_EmptyAndUnknown ==
  /\ (Len(selectedShapesArray) = 0 => actions = << >>)
  /\ ((\E i \in 1..Len(selectedTypes) : selectedTypes[i] \notin DOMAIN ShapeMappingInit)
        => actions = << >>)

C4_Witness ==
  /\ selectedTypes = << "box", "image" >>
  /\ actions = << >>

\* The action a mounted widget stands for.
actionOf(w) == CHOOSE a \in AllActions : contextBarActionMapping[a] = w

\* C9: for every widget the resolver returns, filterShapeByAction gives the
\* whole selection, which is not empty, and a single-shape-only widget is
\* mounted against exactly one shape.
C9_WidgetPrecondition ==
  \A k \in 1..Len(actions) :
    /\ filterShapeByAction(selected, actionOf(actions[k])) = selected
    /\ Len(selected) > 0
    /\ (actionOf(actions[k]) \in SingleShapeOnly => Len(selected) = 1)

C9_Witness ==
  /\ selectedTypes = << "logseq-portal" >>
  /\ includes(actions, "OpenPageAction")
  /\ filterShapeByAction(selected, "OpenPage") = selected

-----------------------------------------------------------------------------
(* Claims about the widgets, checked under Spec *)

\* Exactly one flush is requested, after every other call.
persistOnceLast(tr) ==
  /\ Len(tr) >= 1
  /\ tr[Len(tr)].call = "persist"
  /\ \A i \in 1..(Len(tr) - 1) : tr[i].call # "persist"

\* The shapes the calls of a handler run went to.
calledIds(tr) == { tr[i].id : i \in { k \in 1..Len(tr) : tr[k].call # "persist" } }

\* Every call before the flush is the named one and carries the value.
allCarry(tr, name, prop, value) ==
  \A i \in 1..(Len(tr) - 1) :
    tr[i].call = name /\ tr[i].prop = prop /\ tr[i].value = value

\* After the step every shape of ids has the value under the property.
appliedTo(ids, prop, value) ==
  \A i \in 1..Len(ids) : shapes'[ids[i]][prop] = value

\* The same for the selected shapes that support the action.
applied(action, prop, value) == appliedTo(idsOf(matching(action)), prop, value)

TablesIntact ==
  /\ contextBarActionTypes = ContextBarActionTypesInit
  /\ singleShapeActions = SingleShapeActionsInit
  /\ shapeMapping = ShapeMappingInit

\* C7: the static tables keep their initial contents through every resolver
\* call and widget interaction, and the resolver called again with the same
\* selection returns the list it returned before: the mounted list was
\* computed from the tables as they were before the call, and the second
\* call reads the tables the first call left behind.
C7_TablesNeverMutated ==
  /\ TablesIntact
  /\ getContextBarActionsForTypes(selected) = actions

C7_Witness ==
  /\ TablesIntact
  /\ selectedTypes = << "logseq-portal", "logseq-portal" >>
  /\ actions = << "AutoResizingAction", "ScaleLevelAction", "LogseqPortalViewModeAction" >>
  /\ shapes[1].collapsed /\ shapes[2].collapsed
  /\ shapes[1].scaleLevel = "lg" /\ shapes[2].scaleLevel = "lg"

\* The widgets whose handler is built at every render: the value reaches
\* every selected shape that supports the action, then one flush.
RebuiltHandlersPersistLast ==
  /\ \A v \in { "1", "0" } : ViewModeChange(v) =>
       /\ applied("LogseqPortalViewMode", "collapsed", v = "1")
       /\ persistOnceLast(ViewModeCalls(v))
  /\ \A v \in ScaleLevels : ScaleLevelChange(v) =>
       applied("ScaleLevel", "scaleLevel", v) /\ persistOnceLast(ScaleLevelCalls(v))
  /\ \A v \in { "line", "dashed" } : StrokeTypeChange(v) =>
       applied("StrokeType", "strokeType", v) /\ persistOnceLast(StrokeTypeCalls(v))
  /\ \A v \in ArrowValues : ArrowModeChange(v) =>
       /\ applied("ArrowMode", "decorations",
                  [ start |-> IF "start" \in v THEN "arrow" ELSE "null",
                    end   |-> IF "end" \in v THEN "arrow" ELSE "null" ])
       /\ persistOnceLast(ArrowModeCalls(v))
  /\ \A v \in BOOLEAN : BoldChange(v) =>
       /\ applied("TextStyle", "fontWeight", IF v THEN 700 ELSE 400)
       /\ persistOnceLast(BoldCalls(v))
  /\ \A v \in BOOLEAN : ItalicChange(v) =>
       applied("TextStyle", "italic", v) /\ persistOnceLast(ItalicCalls(v))

\* C6 as claimed: an interaction with any widget applies the new value to
\* every selected shape that supports the widget's action and requests the
\* flush exactly once, after all of the shape updates.
C6_Original ==
  [][ /\ RebuiltHandlersPersistLast
      /\ \A v \in BOOLEAN : AutoResizingChange(v) =>
           /\ applied("AutoResizing", "isAutoResizing", v)
           /\ persistOnceLast(AutoResizingCalls(v))
      /\ \A v \in BOOLEAN : NoFillChange(v) =>
           applied("NoFill", "noFill", v) /\ persistOnceLast(NoFillCalls(v))
      /\ \A v \in Colors : SwatchChange(v) =>
           applied("Swatch", "fill", v) /\ persistOnceLast(SwatchEventCalls(v))
      /\ \A v \in Urls : YoutubeLinkChange(v) =>
           applied("YoutubeLink", "url", v) /\ persistOnceLast(YoutubeLinkCalls(v))
    ]_vars

\* C6 as amended: LogseqPortalViewMode, ScaleLevel, StrokeType, ArrowMode and
\* TextStyle apply the value to every selected shape that supports the
\* action; AutoResizing sets the value on the selected logseq-portal shapes
\* and resets the bounds of the selected text and html shapes.  Every handler
\* run makes only updates that carry the delivered value and requests one
\* flush after them.  A colour event of Swatch updates and flushes nothing
\* itself: its handler run is the debounce timer's, which writes the colour of
\* the latest event and flushes once, ephemeral.
C6_Amended ==
  [][ /\ RebuiltHandlersPersistLast
      /\ \A v \in BOOLEAN : AutoResizingChange(v) =>
           /\ \A i \in 1..Len(matching("AutoResizing")) :
                LET s == matching("AutoResizing")[i]
                IN IF s.type = "logseq-portal"
                   THEN shapes'[s.id].isAutoResizing = v
                   ELSE /\ shapes'[s.id] = shapes[s.id]
                        /\ \E k \in 1..Len(AutoResizingCalls(v)) :
                             /\ AutoResizingCalls(v)[k].call = "onResetBounds"
                             /\ AutoResizingCalls(v)[k].id = s.id
           /\ persistOnceLast(AutoResizingCalls(v))
      /\ \A v \in BOOLEAN : NoFillChange(v) =>
           /\ allCarry(NoFillCalls(v), "update", "noFill", v)
           /\ persistOnceLast(NoFillCalls(v))
      /\ \A v \in Urls : YoutubeLinkChange(v) =>
           /\ allCarry(YoutubeLinkCalls(v), "onYoutubeLinkChange", "", v)
           /\ persistOnceLast(YoutubeLinkCalls(v))
      /\ \A v \in Colors : SwatchChange(v) =>
           shapes' = shapes /\ SwatchEventCalls(v) = << >> /\ timeoutId' = "pending"
      /\ SwatchTimeout =>
           /\ allCarry(SwatchTimerCalls, "update", "fill", lastEvent)
           /\ persistOnceLast(SwatchTimerCalls)
           /\ SwatchTimerCalls[Len(SwatchTimerCalls)] = persist(TRUE)
      /\ OrphanTimeout =>
           /\ \A i \in 1..(Len(OrphanTimerCalls) - 1) :
                OrphanTimerCalls[i].call = "update" /\ OrphanTimerCalls[i].prop = "fill"
           /\ persistOnceLast(OrphanTimerCalls)
           /\ OrphanTimerCalls[Len(OrphanTimerCalls)] = persist(TRUE)
    ]_vars

\* A text shape and a logseq-portal are selected and AutoResizing has been
\* switched off: the portal took the value, the text shape kept its own.
C6_Witness ==
  /\ selectedTypes = << "text", "logseq-portal" >>
  /\ Mounted("AutoResizingAction")
  /\ shapes[1].isAutoResizing
  /\ ~shapes[2].isAutoResizing

\* The colour a shape shows in the colour input.
colorOf(s) == IF s.noFill THEN s.stroke ELSE s.fill

agree(shs, f(_)) == \A i, j \in 1..Len(shs) : f(shs[i]) = f(shs[j])

\* A toggle is pressed when every matching shape has the property: the
\* shared value when they agree, unpressed when they disagree.
toggleShows(shown, shs, f(_)) ==
  IF agree(shs, f) THEN shown = f(shs[1]) ELSE shown = FALSE

\* The widgets other than Swatch: the shared value, or the neutral state.
\* The view-mode group shows '1' when every matching shape is collapsed and
\* '0' otherwise.
DerivedFromAllShapes ==
  /\ Mounted("StrokeTypeAction") =>
       LET m == matching("StrokeType")
       IN display["StrokeTypeAction"] =
            IF agree(m, LAMBDA s : s.strokeType) THEN m[1].strokeType ELSE "mixed"
  /\ Mounted("ScaleLevelAction") =>
       LET m == matching("ScaleLevel")
       IN display["ScaleLevelAction"] =
            IF agree(m, LAMBDA s : s.scaleLevel) THEN m[1].scaleLevel ELSE ""
  /\ Mounted("AutoResizingAction") =>
       toggleShows(display["AutoResizingAction"], matching("AutoResizing"),
                   LAMBDA s : s.isAutoResizing)
  /\ Mounted("NoFillAction") =>
       toggleShows(display["NoFillAction"], matching("NoFill"), LAMBDA s : s.noFill)
  /\ Mounted("TextStyleAction") =>
       /\ toggleShows(display["TextStyleAction"].bold, matching("TextStyle"),
                      LAMBDA s : s.fontWeight > 500)
       /\ toggleShows(display["TextStyleAction"].italic, matching("TextStyle"),
                      LAMBDA s : s.italic)
  /\ Mounted("ArrowModeAction") =>
       /\ toggleShows("start" \in display["ArrowModeAction"], matching("ArrowMode"),
                      LAMBDA s : s.decorations.start = "arrow")
       /\ toggleShows("end" \in display["ArrowModeAction"], matching("ArrowMode"),
                      LAMBDA s : s.decorations.end = "arrow")
  /\ Mounted("LogseqPortalViewModeAction") =>
       LET m == matching("LogseqPortalViewMode")
       IN display["LogseqPortalViewModeAction"] =
            IF \A i \in 1..Len(m) : m[i].collapsed THEN "1" ELSE "0"
  /\ Mounted("YoutubeLinkAction") =>
       display["YoutubeLinkAction"] = matching("YoutubeLink")[1].url

\* C8 as claimed: every widget shows the shared value when its matching
\* shapes agree and a neutral state when they disagree; Swatch then shows a
\* neutral colour, not the colour of any single shape.
C8_Original ==
  /\ DerivedFromAllShapes
  /\ Mounted("SwatchAction") =>
       LET m == matching("Swatch")
       IN IF agree(m, colorOf)
          THEN display["SwatchAction"] = colorOf(m[1])
          ELSE \A i \in 1..Len(m) : display["SwatchAction"] # colorOf(m[i])

\* C8 as amended: every widget but Swatch derives what it shows from all of
\* its matching shapes: StrokeType and ScaleLevel show the shared value or
\* 'mixed' / the empty value, the toggles are pressed only when every shape
\* has the property, the view-mode group shows '1' only when every shape is
\* collapsed.  Swatch shows the colour of the first matching shape, also when
\* the shapes disagree.
C8_Amended ==
  /\ DerivedFromAllShapes
  /\ Mounted("SwatchAction") =>
       display["SwatchAction"] = colorOf(matching("Swatch")[1])

C8_Witness ==
  /\ Mounted("SwatchAction")
  /\ Len(matching("Swatch")) = 2
  /\ ~agree(matching("Swatch"), colorOf)
  /\ display["SwatchAction"] = colorOf(matching("Swatch")[1])
  /\ display["StrokeTypeAction"] = "mixed"
  /\ display["NoFillAction"] = FALSE

\* C5: a colour event updates no shape, and when the debounce timer runs out
\* every matching shape gets exactly one fill update with the value of the
\* last event, followed by exactly one persist(true).
C5_DebouncedCommit ==
  [][ /\ \A v \in Colors : SwatchChange(v) =>
           shapes' = shapes /\ SwatchEventCalls(v) = << >>
      /\ SwatchTimeout =>
           LET m  == matching("Swatch")
               tr == SwatchTimerCalls
           IN /\ \A i \in 1..Len(m) :
                   Cardinality({ k \in 1..Len(tr) :
                                   tr[k] = call("update", m[i].id, "fill", lastEvent) }) = 1
              /\ Len(tr) = Len(m) + 1
              /\ tr[Len(tr)] = persist(TRUE)
    ]_vars

\* The calls of a handler run reach exactly the matching shapes of the
\* current selection, and no unselected shape changes in the step.
reachesSelection(action, tr) ==
  /\ calledIds(tr) = Range(idsOf(matching(action)))
  /\ \A id \in DOMAIN shapes :
       ~includes(selectedShapesArray, id) => shapes'[id] = shapes[id]

\* C10: a handler run of a mounted widget reaches exactly the matching shapes
\* of the current selection and leaves every unselected shape unchanged.
C10_CurrentSelection ==
  [][ /\ \A v \in BOOLEAN : AutoResizingChange(v) =>
           reachesSelection("AutoResizing", AutoResizingCalls(v))
      /\ \A v \in { "1", "0" } : ViewModeChange(v) =>
           reachesSelection("LogseqPortalViewMode", ViewModeCalls(v))
      /\ \A v \in ScaleLevels : ScaleLevelChange(v) =>
           reachesSelection("ScaleLevel", ScaleLevelCalls(v))
      /\ \A v \in Urls : YoutubeLinkChange(v) =>
           reachesSelection("YoutubeLink", YoutubeLinkCalls(v))
      /\ \A v \in BOOLEAN : NoFillChange(v) =>
           reachesSelection("NoFill", NoFillCalls(v))
      /\ SwatchTimeout => reachesSelection("Swatch", SwatchTimerCalls)
      /\ \A v \in { "line", "dashed" } : StrokeTypeChange(v) =>
           reachesSelection("StrokeType", StrokeTypeCalls(v))
      /\ \A v \in ArrowValues : ArrowModeChange(v) =>
           reachesSelection("ArrowMode", ArrowModeCalls(v))
      /\ \A v \in BOOLEAN : BoldChange(v) =>
           reachesSelection("TextStyle", BoldCalls(v))
      /\ \A v \in BOOLEAN : ItalicChange(v) =>
           reachesSelection("TextStyle", ItalicCalls(v))
    ]_vars

====
